---------------------------- MODULE Spec2Model ----------------------------
(***************************************************************************)
(* A model of main.py, the TicketMaster MCP server: the tools textme,      *)
(* searchevents and save_ticketmaster_event, the GoogleCalendarManager     *)
(* they share, and the start-up authentication.                            *)
(*                                                                         *)
(* Python strings are sequences of one-character strings, so that          *)
(* str.split, str.strip, the "in" operator, the f-strings and              *)
(* datetime.strptime are computed character by character.                  *)
(***************************************************************************)
EXTENDS Integers, Sequences, FiniteSets, TLC

(***************************************************************************)
(* Python str operations                                                   *)
(***************************************************************************)

\* the characters str.strip() removes and the regular expression \s matches
Whitespace == {" ", "\t", "\n"}

SetMin(S) == CHOOSE x \in S : \A y \in S : x <= y

SetMax(S) == CHOOSE x \in S : \A y \in S : y <= x

\* the element of a set of one element.  The({e : x \in {v}}) is e with x bound
\* to the value of v, as a Python assignment x = v binds it for what follows.
The(S) == CHOOSE r \in S : TRUE

\* s.strip()
strip(s) ==
    LET keep == {i \in 1..Len(s) : s[i] \notin Whitespace}
    IN  IF keep = {} THEN <<>> ELSE SubSeq(s, SetMin(keep), SetMax(keep))

\* s[i:].startswith(sub), i counted from 1
StartsAt(s, sub, i) ==
    /\ i >= 1
    /\ i + Len(sub) - 1 <= Len(s)
    /\ SubSeq(s, i, i + Len(sub) - 1) = sub

\* sub in s
Contains(s, sub) == \E i \in 1..Len(s) : StartsAt(s, sub, i)

\* s.find(sub) counted from 1, 0 when sub does not occur
Find(s, sub) ==
    LET hits == {i \in 1..Len(s) : StartsAt(s, sub, i)}
    IN  IF hits = {} THEN 0 ELSE SetMin(hits)

RECURSIVE split(_, _)
\* s.split(sep): the list of the pieces between the non-overlapping
\* occurrences of sep, scanned from the left
split(s, sep) ==
    LET i == Find(s, sep)
    IN  IF i = 0
        THEN <<s>>
        ELSE <<SubSeq(s, 1, i - 1)>> \o split(SubSeq(s, i + Len(sep), Len(s)), sep)

RECURSIVE join(_, _)
\* sep.join(list)
join(list, sep) ==
    IF Len(list) = 0 THEN <<>>
    ELSE IF Len(list) = 1 THEN list[1]
    ELSE list[1] \o sep \o join(Tail(list), sep)

(***************************************************************************)
(* Exceptions and return values.  A call either returns a value or raises: *)
(* [raised |-> FALSE, value |-> v] or [raised |-> TRUE, exc |-> class,     *)
(* msg |-> str(e)].                                                        *)
(***************************************************************************)

Return(v) == [raised |-> FALSE, value |-> v]

Raise(class, text) == [raised |-> TRUE, exc |-> class, msg |-> text]

(***************************************************************************)
(* datetime                                                                *)
(***************************************************************************)

DigitChars == <<"0", "1", "2", "3", "4", "5", "6", "7", "8", "9">>

Digit == {DigitChars[i] : i \in 1..10}

\* int(c) of one digit
DigitVal(c) == (CHOOSE i \in 1..10 : DigitChars[i] = c) - 1

RECURSIVE IntOf(_)
\* int(s) of a run of digits
IntOf(s) ==
    IF Len(s) = 0 THEN 0
    ELSE 10 * IntOf(SubSeq(s, 1, Len(s) - 1)) + DigitVal(s[Len(s)])

IsLeap(y) == (y % 4 = 0) /\ ((y % 100 # 0) \/ (y % 400 = 0))

DaysInMonth(y, m) ==
    IF m = 2 THEN (IF IsLeap(y) THEN 29 ELSE 28)
    ELSE IF m \in {4, 6, 9, 11} THEN 30 ELSE 31

S_time_data ==
    <<"t","i","m","e"," ","d","a","t","a"," ","'">>

S_does_not_match ==
    <<"'"," ","d","o","e","s"," ","n","o","t"," ","m","a","t","c","h"," ","f","o","r","m",
      "a","t"," ","'","%","Y","-","%","m","-","%","d"," ","%","H",":","%","M","'">>

S_unconverted ==
    <<"u","n","c","o","n","v","e","r","t","e","d"," ","d","a","t","a"," ","r","e","m","a",
      "i","n","s",":"," ">>

S_year_range ==
    <<"y","e","a","r"," ","0"," ","i","s"," ","o","u","t"," ","o","f"," ","r","a","n","g",
      "e">>

S_day_range ==
    <<"d","a","y"," ","i","s"," ","o","u","t"," ","o","f"," ","r","a","n","g","e"," ","f",
      "o","r"," ","m","o","n","t","h">>

S_date_range ==
    <<"d","a","t","e"," ","v","a","l","u","e"," ","o","u","t"," ","o","f"," ","r","a","n",
      "g","e">>

\* datetime.strptime(s, "%Y-%m-%d %H:%M").  The format compiles to the regular
\* expression  \d\d\d\d - (1[0-2]|0[1-9]|[1-9]) - (3[0-1]|[1-2]\d|0[1-9]|[1-9]| [1-9])
\* \s+ (2[0-3]|[0-1]\d|\d) : ([0-5]\d|\d), matched at the start of s; text left
\* after the match, year 0 and a day the month does not have are ValueErrors.
\* Each stage yields the position after its match, 0 when it fails.
strptime(s) ==
    LET n == Len(s)
        In(i, set) == i >= 1 /\ i <= n /\ s[i] \in set
        D(i) == In(i, Digit)
        Lit(i, c) == IF In(i, {c}) THEN i + 1 ELSE 0
        Year(i) == IF D(i) /\ D(i + 1) /\ D(i + 2) /\ D(i + 3) THEN i + 4 ELSE 0
        Month(i) ==
            IF \/ In(i, {"1"}) /\ In(i + 1, {"0", "1", "2"})
               \/ In(i, {"0"}) /\ In(i + 1, Digit \ {"0"})
            THEN i + 2
            ELSE IF In(i, Digit \ {"0"}) THEN i + 1 ELSE 0
        Day(i) ==
            IF \/ In(i, {"3"}) /\ In(i + 1, {"0", "1"})
               \/ In(i, {"1", "2"}) /\ D(i + 1)
               \/ In(i, {"0"}) /\ In(i + 1, Digit \ {"0"})
            THEN i + 2
            ELSE IF In(i, Digit \ {"0"}) THEN i + 1
            ELSE IF In(i, {" "}) /\ In(i + 1, Digit \ {"0"}) THEN i + 2 ELSE 0
        Spaces(i) ==
            IF ~In(i, Whitespace) THEN 0
            ELSE SetMin({j \in (i + 1)..(n + 1) : ~In(j, Whitespace)})
        Hour(i) ==
            IF \/ In(i, {"2"}) /\ In(i + 1, {"0", "1", "2", "3"})
               \/ In(i, {"0", "1"}) /\ D(i + 1)
            THEN i + 2
            ELSE IF D(i) THEN i + 1 ELSE 0
        Minute(i) ==
            IF In(i, {"0", "1", "2", "3", "4", "5"}) /\ D(i + 1) THEN i + 2
            ELSE IF D(i) THEN i + 1 ELSE 0
        p1 == Year(1)
        p2 == Lit(p1, "-")
        p3 == Month(p2)
        p4 == Lit(p3, "-")
        p5 == Day(p4)
        p6 == Spaces(p5)
        p7 == Hour(p6)
        p8 == Lit(p7, ":")
        p9 == Minute(p8)
        y == IntOf(SubSeq(s, 1, p1 - 1))
        mo == IntOf(SubSeq(s, p2, p3 - 1))
        d == IntOf(strip(SubSeq(s, p4, p5 - 1)))
        h == IntOf(SubSeq(s, p6, p7 - 1))
        mi == IntOf(SubSeq(s, p8, p9 - 1))
    IN  IF p9 = 0
        THEN Raise("ValueError", S_time_data \o s \o S_does_not_match)
        ELSE IF p9 # n + 1
        THEN Raise("ValueError", S_unconverted \o SubSeq(s, p9, n))
        ELSE IF y = 0
        THEN Raise("ValueError", S_year_range)
        ELSE IF d > DaysInMonth(y, mo)
        THEN Raise("ValueError", S_day_range)
        ELSE Return([year |-> y, month |-> mo, day |-> d, hour |-> h, minute |-> mi])

\* the day after the date of dt
NextDay(dt) ==
    IF dt.day < DaysInMonth(dt.year, dt.month)
    THEN [dt EXCEPT !.day = dt.day + 1]
    ELSE IF dt.month < 12
    THEN [dt EXCEPT !.day = 1, !.month = dt.month + 1]
    ELSE [dt EXCEPT !.day = 1, !.month = 1, !.year = dt.year + 1]

RECURSIVE AddDays(_, _)
AddDays(dt, k) == IF k = 0 THEN dt ELSE AddDays(NextDay(dt), k - 1)

\* dt + timedelta(hours=h): OverflowError past datetime.max (year 9999)
timedelta_add(dt, h) ==
    LET total == dt.hour + h
        r == AddDays([dt EXCEPT !.hour = total % 24], total \div 24)
    IN  IF r.year > 9999 THEN Raise("OverflowError", S_date_range) ELSE Return(r)

\* two datetimes in chronological order
Before(a, b) ==
    LET ka == <<a.year, a.month, a.day, a.hour, a.minute>>
        kb == <<b.year, b.month, b.day, b.hour, b.minute>>
    IN  \E i \in 1..5 : ka[i] < kb[i] /\ \A j \in 1..(i - 1) : ka[j] = kb[j]

\* the decimal digits of n, left-padded with zeros to the given width
Pad(n, width) ==
    [i \in 1..width |-> DigitChars[((n \div (10 ^ (width - i))) % 10) + 1]]

\* dt.isoformat() of a datetime without seconds: YYYY-MM-DDTHH:MM:00
isoformat(dt) ==
    Pad(dt.year, 4) \o <<"-">> \o Pad(dt.month, 2) \o <<"-">> \o Pad(dt.day, 2)
        \o <<"T">> \o Pad(dt.hour, 2) \o <<":">> \o Pad(dt.minute, 2)
        \o <<":", "0", "0">>

(***************************************************************************)
(* Python values.  A dict entry or an optional value is <<>> when the key  *)
(* is absent (or the value is None) and <<v>> when it holds v.             *)
(***************************************************************************)

Absent == <<>>

Some(v) == <<v>>

\* d.get(key, default) on the entry of the key
get(entry, default) == IF entry = Absent THEN default ELSE entry[1]

\* an exception of httpx.HTTPStatusError, carrying e.response
RaiseStatus(code, text) ==
    [raised |-> TRUE, exc |-> "HTTPStatusError", msg |-> code,
     status_code |-> code, text |-> text]

(***************************************************************************)
(* searchevents                                                            *)
(***************************************************************************)

S_BASE_URL ==
    <<"h","t","t","p","s",":","/","/","a","p","p",".","t","i","c","k","e","t","m","a",
      "s","t","e","r",".","c","o","m","/","d","i","s","c","o","v","e","r","y","/","v",
      "2","/","e","v","e","n","t","s",".","j","s","o","n">>

S_query_size ==
    <<"?","s","i","z","e","=","1","0","&","k","e","y","w","o","r","d","=">>

S_query_key ==
    <<"&","a","p","i","k","e","y","=">>

S_Unknown_Event ==
    <<"U","n","k","n","o","w","n"," ","E","v","e","n","t">>

S_TBD ==
    <<"T","B","D">>

S_Unknown_Venue ==
    <<"U","n","k","n","o","w","n"," ","V","e","n","u","e">>

S_at ==
    <<" ","a","t"," ">>

S_bar ==
    <<" ","|"," ">>

S_No_events_found ==
    <<"N","o"," ","e","v","e","n","t","s"," ","f","o","u","n","d">>

S_Error_searching ==
    <<"E","r","r","o","r"," ","s","e","a","r","c","h","i","n","g"," ","e","v","e","n",
      "t","s",":"," ">>

S_dash ==
    <<" ","-"," ">>

S_index_range ==
    <<"l","i","s","t"," ","i","n","d","e","x"," ","o","u","t"," ","o","f"," ","r","a",
      "n","g","e">>

\* the {} that event.get('dates', {}) falls back to
EmptyDates == [start |-> Absent]

\* the {} that .get('start', {}) falls back to
EmptyStart == [localDate |-> Absent, localTime |-> Absent]

\* the {} that event.get('_embedded', {}) falls back to
EmptyEmbedded == [venues |-> Absent]

\* the [{}] that .get('venues', [{}]) falls back to
DefaultVenues == <<[name |-> Absent]>>

\* the body of the loop over the events: the line of one event, or the
\* IndexError of venues[0] on an empty list
event_line(event) ==
    LET name == get(event.name, S_Unknown_Event)
        start == get(get(event.dates, EmptyDates).start, EmptyStart)
        date == get(start.localDate, S_TBD)
        time == get(start.localTime, <<>>)
        venues == get(get(event.embedded, EmptyEmbedded).venues, DefaultVenues)
        url == get(event.url, <<>>)
        time_part == IF time # <<>> THEN S_at \o time ELSE <<>>
    IN  IF Len(venues) = 0
        THEN Raise("IndexError", S_index_range)
        ELSE Return(name \o S_bar \o date \o time_part \o S_bar
                        \o get(venues[1].name, S_Unknown_Venue) \o S_bar \o url)

RECURSIVE events_loop(_)
\* the for loop: the lines of all events, or the first exception
events_loop(events) ==
    IF Len(events) = 0 THEN Return(<<>>)
    ELSE LET first == event_line(Head(events))
             rest == events_loop(Tail(events))
         IN  IF first.raised THEN first
             ELSE IF rest.raised THEN rest
             ELSE Return(<<first.value>> \o rest.value)

\* the URL requested of the discovery API
search_url(keyword, api_key) ==
    S_BASE_URL \o S_query_size \o keyword \o S_query_key \o api_key

\* the try block of search_events, given what the GET came to
search_events_try(response) ==
    IF response.kind = "error" THEN Raise(response.exc, response.msg)
    ELSE IF response.kind = "status"
    THEN RaiseStatus(response.status_code, response.text)
    ELSE IF response.kind = "notjson" THEN Raise("JSONDecodeError", response.msg)
    ELSE LET data == response.data
             events_list ==
                 IF data.embedded # Absent /\ data.embedded[1].events # Absent
                 THEN events_loop(data.embedded[1].events[1])
                 ELSE Return(<<S_No_events_found>>)
         IN  IF events_list.raised THEN events_list
             ELSE Return(join(events_list.value, <<"\n">>))

\* search_events without the "except Exception" handler
search_events_uncaught(keyword, response) ==
    The({IF r.raised /\ r.exc = "HTTPStatusError"
         THEN Return(S_Error_searching \o r.status_code \o S_dash \o r.text)
         ELSE r :
             r \in {search_events_try(response)}})

\* search_events(keyword): the try block and its two handlers
search_events(keyword, response) ==
    The({IF ~r.raised THEN r
         ELSE IF r.exc = "HTTPStatusError"
         THEN Return(S_Error_searching \o r.status_code \o S_dash \o r.text)
         ELSE Return(S_Error_searching \o r.msg) :
             r \in {search_events_try(response)}})

(***************************************************************************)
(* textme                                                                  *)
(***************************************************************************)

S_messages_url ==
    <<"h","t","t","p","s",":","/","/","a","p","i",".","s","u","r","g","e",".","a","p",
      "p","/","m","e","s","s","a","g","e","s">>

S_Message_sent ==
    <<"M","e","s","s","a","g","e"," ","s","e","n","t"," ","s","u","c","c","e","s","s",
      "f","u","l","l","y",":"," ">>

S_Error_sending ==
    <<"E","r","r","o","r"," ","s","e","n","d","i","n","g"," ","m","e","s","s","a","g",
      "e",":"," ">>

S_Bearer ==
    <<"B","e","a","r","e","r"," ">>

S_application_json ==
    <<"a","p","p","l","i","c","a","t","i","o","n","/","j","s","o","n">>

\* the POST that textme sends
textme_request(text_content, settings) ==
    [url |-> S_messages_url,
     headers |-> [Authorization |-> S_Bearer \o settings.api_key,
                  SurgeAccount |-> settings.account_id,
                  ContentType |-> S_application_json],
     json |-> [body |-> text_content,
               conversation |->
                   [contact |-> [first_name |-> settings.my_first_name,
                                 last_name |-> settings.my_last_name,
                                 phone_number |-> settings.my_phone_number]]]]

\* the try block of textme, given what the POST came to
textme_try(text_content, response) ==
    IF response.kind = "error" THEN Raise(response.exc, response.msg)
    ELSE IF response.kind = "status"
    THEN RaiseStatus(response.status_code, response.text)
    ELSE Return(S_Message_sent \o text_content)

\* textme(text_content): the try block and its two handlers
textme(text_content, response) ==
    The({IF ~r.raised THEN r
         ELSE IF r.exc = "HTTPStatusError"
         THEN Return(S_Error_sending \o r.status_code \o S_dash \o r.text)
         ELSE Return(S_Error_sending \o r.msg) :
             r \in {textme_try(text_content, response)}})

\* text_me_my_event(message)
text_me_my_event(message, response) == textme(message, response)

(***************************************************************************)
(* GoogleCalendarManager.create_event                                      *)
(***************************************************************************)

S_timezone ==
    <<"A","m","e","r","i","c","a","/","N","e","w","_","Y","o","r","k">>

S_primary ==
    <<"p","r","i","m","a","r","y">>

S_Event_q ==
    <<"E","v","e","n","t"," ","'">>

S_created ==
    <<"'"," ","c","r","e","a","t","e","d"," ","s","u","c","c","e","s","s","f","u","l",
      "l","y">>

S_Failed_create ==
    <<"F","a","i","l","e","d"," ","t","o"," ","c","r","e","a","t","e"," ","e","v","e",
      "n","t",":"," ">>

S_None ==
    <<"N","o","n","e">>

\* str(v) of a value that is a string or None, as an f-string formats it
format(v) == IF v = Absent THEN S_None ELSE v[1]

\* timedelta(hours=2), the duration create_event falls back to
DefaultHours == 2

\* the body handed to events().insert()
event_body(title, start_datetime, end_datetime, description, location, timezone) ==
    [summary |-> title,
     location |-> location,
     description |-> description,
     start |-> [dateTime |-> isoformat(start_datetime), timeZone |-> timezone],
     end |-> [dateTime |-> isoformat(end_datetime), timeZone |-> timezone],
     reminders |->
         [useDefault |-> FALSE,
          overrides |-> <<[method |-> "email", minutes |-> 24 * 60],
                          [method |-> "popup", minutes |-> 60]>>]]

\* create_event(title, start_datetime, end_datetime, description, location,
\* timezone), given what events().insert().execute() comes to.  result is the
\* dict returned or the exception that leaves the method; inserts lists the
\* insert requests made.
create_event(title, start_datetime, end_datetime, description, location, timezone, insert) ==
    LET end == IF end_datetime = Absent
               THEN timedelta_add(start_datetime, DefaultHours)
               ELSE Return(end_datetime[1])
    IN  IF end.raised THEN [result |-> end, inserts |-> <<>>]
        ELSE [inserts |->
                  <<[calendarId |-> S_primary,
                     body |-> event_body(title, start_datetime, end.value,
                                         description, location, timezone)]>>,
              result |->
                  IF insert.kind = "ok"
                  THEN Return([success |-> TRUE,
                               event_id |-> insert.id,
                               html_link |-> insert.htmlLink,
                               message |-> S_Event_q \o title \o S_created])
                  ELSE IF insert.kind = "HttpError"
                  THEN Return([success |-> FALSE,
                               error |-> insert.msg,
                               message |-> S_Failed_create \o insert.msg])
                  ELSE Raise(insert.exc, insert.msg)]

(***************************************************************************)
(* save_ticketmaster_event                                                 *)
(***************************************************************************)

S_default_time ==
    <<"1","9",":","0","0">>

S_http ==
    <<"h","t","t","p">>

S_colon ==
    <<":">>

S_Ticketmaster_Event ==
    <<"T","i","c","k","e","t","m","a","s","t","e","r"," ","E","v","e","n","t">>

S_Tickets ==
    <<"\n","T","i","c","k","e","t","s",":"," ">>

S_Invalid_format ==
    <<" ","I","n","v","a","l","i","d"," ","e","v","e","n","t"," ","f","o","r","m","a",
      "t","."," ","E","x","p","e","c","t","e","d",":"," ","'","E","v","e","n","t"," ",
      "N","a","m","e"," ","|"," ","D","a","t","e"," ","|"," ","V","e","n","u","e"," ",
      "|"," ","U","R","L","'">>

S_saved ==
    <<" ","T","i","c","k","e","t","m","a","s","t","e","r"," ","e","v","e","n","t"," ",
      "s","a","v","e","d"," ","t","o"," ","c","a","l","e","n","d","a","r","!","\n">>

S_View ==
    <<"\n","V","i","e","w",":"," ">>

S_Failed_save ==
    <<" ","F","a","i","l","e","d"," ","t","o"," ","s","a","v","e"," ","e","v","e","n",
      "t",":"," ">>

S_Error_parsing ==
    <<" ","E","r","r","o","r"," ","p","a","r","s","i","n","g","/","s","a","v","i","n",
      "g"," ","e","v","e","n","t",":"," ">>

S_unpack ==
    <<"t","o","o"," ","m","a","n","y"," ","v","a","l","u","e","s"," ","t","o"," ","u",
      "n","p","a","c","k"," ","(","e","x","p","e","c","t","e","d"," ","2",")">>

\* the pictographs that open the messages, one element each
G_cross == <<"(cross)">>

G_ticket == <<"(ticket)">>

G_calendar == <<"(calendar)">>

G_pin == <<"(pin)">>

\* timedelta(hours=3), the duration of a saved event
SaveHours == 3

\* a variant of save_end_datetime: the duration create_event falls back to
save_end_datetime_default(event_datetime) == timedelta_add(event_datetime, DefaultHours)

\* end_datetime = event_datetime + timedelta(hours=3)
save_end_datetime(event_datetime) == timedelta_add(event_datetime, SaveHours)

\* a variant of too_few_parts: a check that lets two parts through
fewer_than_two_parts(parts) == Len(parts) < 2

\* len(parts) < 3, the format check
too_few_parts(parts) == Len(parts) < 3

\* date_str, time_str = date_part.split(" at "): the two names bound, or the
\* ValueError of unpacking more than two pieces
unpack_date_time(date_part) ==
    LET pieces == split(date_part, S_at)
    IN  IF Len(pieces) # 2
        THEN Raise("ValueError", S_unpack)
        ELSE Return([date_str |-> pieces[1], time_str |-> pieces[2]])

\* The try block of save_ticketmaster_event runs in stages.  Each stage takes
\* the frame f of the locals bound so far and what the calendar insert comes
\* to, and yields [frame, result, inserts, created]: the locals bound when the
\* block is left, the value returned or the exception raised, the insert
\* requests made, and what create_event came to when it was called.

\* the block is left before create_event is called
Left(f, r) == [frame |-> f, result |-> r, inserts |-> <<>>, created |-> Absent]

\* if result['success']: ... else: ...
save_report(f, called) ==
    [frame |-> f,
     inserts |-> called.inserts,
     created |-> Some(called.result),
     result |->
         IF f.result.success
         THEN Return(G_ticket \o S_saved \o f.title \o <<"\n">> \o G_calendar
                         \o <<" ">> \o f.date_str \o S_at \o f.time_str
                         \o <<"\n">> \o G_pin \o <<" ">> \o format(f.venue)
                         \o S_View \o f.result.html_link)
         ELSE Return(G_cross \o S_Failed_save \o f.result.message)]

\* result = calendar_manager.create_event(...)
save_create(f, insert) ==
    The({IF called.result.raised
         THEN [frame |-> f, result |-> called.result, inserts |-> called.inserts,
               created |-> Some(called.result)]
         ELSE save_report(f @@ [result |-> called.result.value], called) :
             called \in {create_event(f.title, f.event_datetime,
                                      Some(f.end_datetime), Some(f.description),
                                      f.venue, S_timezone, insert)}})

\* end_datetime = event_datetime + timedelta(hours=3)
save_end(f, insert) ==
    The({IF end.raised THEN Left(f, end)
         ELSE The({save_create(g, insert) :
                       g \in {f @@ [end_datetime |-> end.value]}}) :
             end \in {save_end_datetime(f.event_datetime)}})

\* event_datetime = datetime.strptime(f"{date_str} {time_str}", "%Y-%m-%d %H:%M")
save_parse(f, insert) ==
    The({IF parsed.raised THEN Left(f, parsed)
         ELSE The({save_end(g, insert) :
                       g \in {f @@ [event_datetime |-> parsed.value]}}) :
             parsed \in {strptime(f.date_str \o <<" ">> \o f.time_str)}})

\* the default of a time without ":", and the description
save_describe(f, insert) ==
    The({save_parse(g, insert) :
             g \in {[f EXCEPT !.time_str = IF ~Contains(f.time_str, S_colon)
                                           THEN S_default_time
                                           ELSE f.time_str]
                        @@ [description |->
                                S_Ticketmaster_Event
                                    \o (IF f.url # Absent /\ f.url[1] # <<>>
                                        THEN S_Tickets \o f.url[1]
                                        ELSE <<>>)]}})

\* the date and the time of date_part
save_date_time(f, insert) ==
    The({IF unpacked.raised THEN Left(f, unpacked)
         ELSE The({save_describe(g, insert) : g \in {f @@ unpacked.value}}) :
             unpacked \in
                 {IF Contains(f.date_part, S_at)
                  THEN The({IF u.raised THEN u
                            ELSE Return([u.value EXCEPT
                                             !.time_str = strip(u.value.time_str)]) :
                                u \in {unpack_date_time(f.date_part)}})
                  ELSE Return([date_str |-> f.date_part,
                               time_str |-> S_default_time])}})

\* a variant of save_fields: the last part is taken for the url whatever it holds
save_fields_last_part_is_url(f, insert) ==
    IF too_few_parts(f.parts)
    THEN Left(f, Return(G_cross \o S_Invalid_format))
    ELSE The({save_date_time(g, insert) :
                  g \in {f @@ [title |-> strip(f.parts[1]),
                               date_part |-> strip(f.parts[2]),
                               venue |-> IF Len(f.parts) > 2
                                         THEN Some(strip(f.parts[3]))
                                         ELSE Absent,
                               url |-> Some(strip(f.parts[Len(f.parts)]))]}})

\* the format check, then title, date_part, venue and url
save_fields(f, insert) ==
    IF too_few_parts(f.parts)
    THEN Left(f, Return(G_cross \o S_Invalid_format))
    ELSE The({save_date_time(g, insert) :
                  g \in {f @@ [title |-> strip(f.parts[1]),
                               date_part |-> strip(f.parts[2]),
                               venue |-> IF Len(f.parts) > 2
                                         THEN Some(strip(f.parts[3]))
                                         ELSE Absent,
                               url |-> IF Contains(f.parts[Len(f.parts)], S_http)
                                       THEN Some(strip(f.parts[Len(f.parts)]))
                                       ELSE Absent]}})

\* parts = event_info.split(" | "), and the stages that follow
save_try(event_info, insert) ==
    The({save_fields(f, insert) : f \in {[parts |-> split(event_info, S_bar)]}})

\* save_ticketmaster_event(event_info): the try block and its handler
save_ticketmaster_event(event_info, insert) ==
    The({[frame |-> t.frame, inserts |-> t.inserts, created |-> t.created,
          result |-> IF t.result.raised
                     THEN Return(G_cross \o S_Error_parsing \o t.result.msg)
                     ELSE t.result] :
             t \in {save_try(event_info, insert)}})

(***************************************************************************)
(* GoogleCalendarManager.authenticate                                      *)
(***************************************************************************)

\* the credentials that a refresh or the interactive flow yields
FreshCredentials == [valid |-> TRUE, expired |-> FALSE, refresh_token |-> TRUE]

\* a variant of authenticate: token.json is written on every path that builds
\* the service, the cached one included
authenticate_always_writes(token_json, load, refresh, flow) ==
    LET failed(path, class) ==
            [path |-> path, writes |-> 0, token_json |-> token_json,
             result |-> Raise(class, <<>>)]
        saved(path) ==
            [path |-> path, writes |-> 1, token_json |-> Some(FreshCredentials),
             result |-> Return(Some("calendar v3"))]
    IN  IF token_json # Absent /\ load = "error"
        THEN failed("load", "ValueError")
        ELSE IF token_json # Absent /\ token_json[1].valid
        THEN [path |-> "cached", writes |-> 1, token_json |-> token_json,
              result |-> Return(Some("calendar v3"))]
        ELSE IF /\ token_json # Absent
                /\ token_json[1].expired
                /\ token_json[1].refresh_token
        THEN IF refresh = "error" THEN failed("refresh", "RefreshError")
             ELSE saved("refresh")
        ELSE IF flow = "error" THEN failed("interactive", "FileNotFoundError")
             ELSE saved("interactive")

\* authenticate(), given the content of token.json (Absent when the file does
\* not exist) and what the collaborators come to: load (reading the file),
\* refresh (creds.refresh) and flow (the interactive flow), each "ok" or
\* "error".  path is the branch taken, writes the number of writes of
\* token.json, token_json its content afterwards, result the service built or
\* the exception that leaves the method.
authenticate(token_json, load, refresh, flow) ==
    LET failed(path, class) ==
            [path |-> path, writes |-> 0, token_json |-> token_json,
             result |-> Raise(class, <<>>)]
        saved(path) ==
            [path |-> path, writes |-> 1, token_json |-> Some(FreshCredentials),
             result |-> Return(Some("calendar v3"))]
    IN  IF token_json # Absent /\ load = "error"
        THEN failed("load", "ValueError")
        ELSE IF token_json # Absent /\ token_json[1].valid
        THEN [path |-> "cached", writes |-> 0, token_json |-> token_json,
              result |-> Return(Some("calendar v3"))]
        ELSE IF /\ token_json # Absent
                /\ token_json[1].expired
                /\ token_json[1].refresh_token
        THEN IF refresh = "error" THEN failed("refresh", "RefreshError")
             ELSE saved("refresh")
        ELSE IF flow = "error" THEN failed("interactive", "FileNotFoundError")
             ELSE saved("interactive")

(***************************************************************************)
(* The inputs of the model: what the host sends and what the external      *)
(* services answer.                                                        *)
(***************************************************************************)

T_Jazz_Fest ==
    <<"J","a","z","z"," ","F","e","s","t">>

T_A_bar_B ==
    <<"R","o","c","k"," ","|"," ","R","o","l","l">>

T_date ==
    <<"2","0","2","5","-","0","9","-","0","1">>

T_time ==
    <<"2","0",":","0","0">>

T_time_seconds ==
    <<"2","0",":","0","0",":","0","0">>

T_time_no_colon ==
    <<"8","p","m">>

T_Blue_Note ==
    <<"B","l","u","e"," ","N","o","t","e">>

T_url ==
    <<"h","t","t","p","s",":","/","/","t","m","/","j","a","z","z">>

T_jazz ==
    <<"j","a","z","z">>

T_hi ==
    <<"h","i">>

T_404 ==
    <<"4","0","4">>

T_Not_Found ==
    <<"N","o","t"," ","F","o","u","n","d">>

T_down ==
    <<"c","o","n","n","e","c","t","i","o","n"," ","r","e","f","u","s","e","d">>

T_bad_json ==
    <<"E","x","p","e","c","t","i","n","g"," ","v","a","l","u","e">>

T_Show ==
    <<"S","h","o","w">>

T_Show_padded ==
    <<" "," ","S","h","o","w"," ">>

T_Venue ==
    <<"V","e","n","u","e">>

T_url_word ==
    <<"u","r","l">>

T_https_x ==
    <<"h","t","t","p","s",":","/","/","x">>

T_OnlyOnePart ==
    <<"O","n","l","y","O","n","e","P","a","r","t">>

T_two_parts ==
    <<"S","h","o","w"," ","|"," ","2","0","2","5","-","0","8","-","1","5">>

D_date_time ==
    <<"2","0","2","5","-","0","8","-","1","5"," ","a","t"," ","1","9",":","3","0">>

D_date ==
    <<"2","0","2","5","-","0","8","-","1","5">>

D_TBD ==
    <<"T","B","D">>

D_TBD_time ==
    <<"T","B","D"," ","a","t"," ","2","0",":","0","0">>

D_no_colon ==
    <<"2","0","2","5","-","0","8","-","1","5"," ","a","t"," ","7","p","m">>

D_two_at ==
    <<"2","0","2","5","-","0","8","-","1","5"," ","a","t"," ","1","9",":","3","0"," ",
      "a","t"," ","D","o","o","r">>

D_two_at_no_colon ==
    <<"2","0","2","5","-","0","8","-","1","5"," ","a","t"," ","7"," ","a","t"," ","8">>

D_evening ==
    <<"2","0","2","5","-","0","9","-","0","1"," ","a","t"," ","2","0",":","0","0">>

D_last_hour ==
    <<"9","9","9","9","-","1","2","-","3","1"," ","a","t"," ","2","3",":","0","0">>

D_new_year ==
    <<"2","0","2","5","-","1","2","-","3","1"," ","a","t"," ","2","2",":","3","0">>

D_seconds ==
    <<"2","0","2","5","-","0","9","-","0","1"," ","a","t"," ","2","0",":","0","0",":",
      "0","0">>

D_feb_30 ==
    <<"2","0","2","5","-","0","2","-","3","0"," ","a","t"," ","1","0",":","0","0">>

D_unpadded ==
    <<"2","0","2","5","-","8","-","5"," ","a","t"," ","7",":","0","5">>

D_spaced ==
    <<"2","0","2","5","-","0","8","-","1","5"," "," ","a","t"," "," ","1","9",":","3",
      "0">>

T_event_id ==
    <<"e","v","t","1">>

T_html_link ==
    <<"h","t","t","p","s",":","/","/","c","a","l","/","e","v","t","1">>

T_rejected ==
    <<"<","H","t","t","p","E","r","r","o","r"," ","4","0","3"," ","\"","F","o","r","b",
      "i","d","d","e","n","\"",">">>

T_timeout ==
    <<"t","i","m","e","d"," ","o","u","t">>

T_api_key ==
    <<"k","e","y">>

T_secret ==
    <<"s","e","c","r","e","t">>

T_account ==
    <<"a","c","c","t">>

T_phone ==
    <<"+","1","5","5","5","0","1","0","0">>

T_first ==
    <<"A","d","a">>

T_last ==
    <<"L","o","v","e","l","a","c","e">>

\* the most events one discovery response of the model carries
MaxEvents == 2

\* os.getenv('TICKETMASTER_CONSUMER_KEY')
API_KEY == Some(T_api_key)

\* SurgeSettings() read from the environment
SurgeSettings ==
    [api_key |-> T_secret, account_id |-> T_account, my_phone_number |-> T_phone,
     my_first_name |-> T_first, my_last_name |-> T_last]

\* the contents token.json can have when the process starts: no file, or
\* credentials that are valid, expired with or without a refresh token, or
\* without an access token (neither valid nor expired)
TokenFiles ==
    {Absent}
        \cup {Some([valid |-> v, expired |-> e, refresh_token |-> r]) :
                  <<v, e, r>> \in {<<TRUE, FALSE, TRUE>>, <<FALSE, TRUE, TRUE>>,
                                   <<FALSE, TRUE, FALSE>>, <<FALSE, FALSE, TRUE>>,
                                   <<FALSE, FALSE, FALSE>>}}

Outcomes == {"ok", "error"}

\* what an HTTP request that carries no data of interest can come to
HttpFailures ==
    {[kind |-> "status", status_code |-> T_404, text |-> T_Not_Found],
     [kind |-> "error", exc |-> "ConnectError", msg |-> T_down]}

PostResponses == HttpFailures \cup {[kind |-> "ok"]}

Texts == {T_hi, <<>>}

Keywords == {T_jazz}

Event(name, dates, embedded, url) ==
    [name |-> name, dates |-> dates, embedded |-> embedded, url |-> url]

Dates(date, time) == Some([start |-> Some([localDate |-> date, localTime |-> time])])

Venues(list) == Some([venues |-> Some(list)])

\* the event of the scenario: every field present
FullEvent ==
    Event(Some(T_Jazz_Fest), Dates(Some(T_date), Some(T_time)),
          Venues(<<[name |-> Some(T_Blue_Note)]>>), Some(T_url))

\* events with each of the four fields present or absent, independently
PresentOrAbsent ==
    {Event(n, d, v, u) :
         n \in {Absent, FullEvent.name}, d \in {Absent, FullEvent.dates},
         v \in {Absent, FullEvent.embedded}, u \in {Absent, FullEvent.url}}

\* the full event with one field changed
Variants ==
    {[FullEvent EXCEPT !.name = Some(T_A_bar_B)]}
        \cup {[FullEvent EXCEPT !.dates = d] :
                  d \in {Some([start |-> Absent]),
                         Dates(Some(T_date), Absent),
                         Dates(Absent, Some(T_time)),
                         Dates(Some(T_date), Some(<<>>)),
                         Dates(Some(T_date), Some(T_time_seconds)),
                         Dates(Some(T_date), Some(T_time_no_colon))}}
        \cup {[FullEvent EXCEPT !.embedded = v] :
                  v \in {Some([venues |-> Absent]),
                         Venues(<<>>),
                         Venues(<<[name |-> Absent]>>),
                         Venues(<<[name |-> Some(T_Blue_Note)],
                                  [name |-> Some(T_Venue)]>>)}}

EventPool == PresentOrAbsent \cup Variants

\* the events that responses of several events are made of
SmallPool ==
    {FullEvent,
     Event(Absent, Absent, Absent, Absent),
     [FullEvent EXCEPT !.embedded = Venues(<<>>)],
     [FullEvent EXCEPT !.name = Some(T_A_bar_B),
                       !.dates = Dates(Some(T_date), Absent)]}

RECURSIVE SeqsOf(_, _)
\* the sequences of exactly n elements of S
SeqsOf(S, n) ==
    IF n = 0 THEN {<<>>}
    ELSE {<<x>> \o s : x \in S, s \in SeqsOf(S, n - 1)}

EventLists ==
    {<<>>} \cup {<<e>> : e \in EventPool}
        \cup UNION {SeqsOf(SmallPool, n) : n \in 2..MaxEvents}

\* the JSON documents of a successful discovery response
Documents ==
    {[embedded |-> Absent], [embedded |-> Some([events |-> Absent])]}
        \cup {[embedded |-> Some([events |-> Some(list)])] : list \in EventLists}

GetResponses ==
    HttpFailures
        \cup {[kind |-> "notjson", msg |-> T_bad_json]}
        \cup {[kind |-> "ok", data |-> d] : d \in Documents}

\* what events().insert().execute() can come to
InsertOutcomes ==
    {[kind |-> "ok", id |-> T_event_id, htmlLink |-> T_html_link],
     [kind |-> "HttpError", msg |-> T_rejected],
     [kind |-> "error", exc |-> "TimeoutError", msg |-> T_timeout]}

DateParts ==
    {D_date_time, D_date, D_TBD, D_TBD_time, D_no_colon, D_two_at,
     D_two_at_no_colon, D_evening, D_last_hour, D_new_year, D_seconds, D_feb_30,
     D_unpadded, D_spaced}

\* the parts after the date: venue, venue and url, a venue that is a url, a
\* fourth part that is no url, a fifth part after the url
Tails ==
    {<<T_Venue>>, <<T_Venue, T_https_x>>, <<T_https_x>>, <<T_Venue, T_url_word>>,
     <<T_Venue, T_https_x, T_Blue_Note>>}

EventInfos ==
    {T_OnlyOnePart, T_two_parts, <<>>}
        \cup {join(<<t, d>> \o tail, S_bar) :
                  t \in {T_Show, T_Show_padded}, d \in DateParts, tail \in Tails}

(***************************************************************************)
(* The state                                                               *)
(***************************************************************************)

VARIABLES
    phase,          \* "boot", "loaded" (settings read), "serving", "crashed"
    surge_settings, \* the module's surge_settings, Absent until read
    token_json,     \* the content of token.json, Absent when there is no file
    token_at_start, \* the content of token.json when the process started
    service,        \* calendar_manager.service, Absent until built
    auth_runs,      \* the number of calls of authenticate()
    auth_path,      \* the branch the last authenticate() took
    token_writes,   \* the number of writes of token.json
    tool,           \* the tool whose reply the host holds, "none" when it holds none
    arg,            \* the argument of that call
    returned,       \* what the call came to: a value returned or an exception
    outbound,       \* the requests the call sent to external services
    response,       \* the discovery response of the search the host last made
    origin,         \* the line of that search's output the save was given, or 0
    frame,          \* the locals of save_ticketmaster_event when the call ended
    created         \* what create_event came to in the call, Absent if not called

vars ==
    <<phase, surge_settings, token_json, token_at_start, service, auth_runs,
      auth_path, token_writes, tool, arg, returned, outbound, response, origin,
      frame, created>>

startup == <<surge_settings, token_json, token_at_start, service, auth_runs, auth_path, token_writes>>

NoResponse == [kind |-> "none"]

NoFrame == [parts |-> <<>>]

\* the host holds no reply
NoCall ==
    /\ tool = "none"
    /\ arg = <<>>
    /\ returned = Return(<<>>)
    /\ outbound = <<>>
    /\ response = NoResponse
    /\ origin = 0
    /\ frame = NoFrame
    /\ created = Absent

Init ==
    /\ phase = "boot"
    /\ surge_settings = Absent
    /\ token_json \in TokenFiles
    /\ token_at_start = token_json
    /\ service = Absent
    /\ auth_runs = 0
    /\ auth_path = "none"
    /\ token_writes = 0
    /\ NoCall

call == <<tool, arg, returned, outbound, response, origin, frame, created>>

\* surge_settings = SurgeSettings(): the process ends when the environment
\* lacks a field
LoadSettings ==
    /\ phase = "boot"
    /\ \E env \in Outcomes :
           /\ phase' = IF env = "ok" THEN "loaded" ELSE "crashed"
           /\ surge_settings' = IF env = "ok" THEN Some(SurgeSettings) ELSE Absent
    /\ UNCHANGED <<token_json, token_at_start, service, auth_runs, auth_path, token_writes>>
    /\ UNCHANGED call

\* calendar_manager = GoogleCalendarManager(): __init__ runs authenticate();
\* an exception ends the process before any tool is served
ConstructCalendarManager ==
    /\ phase = "loaded"
    /\ \E load \in Outcomes, refresh \in Outcomes, flow \in Outcomes :
           \E a \in {authenticate(token_json, load, refresh, flow)} :
               /\ auth_runs' = auth_runs + 1
               /\ auth_path' = a.path
               /\ token_writes' = token_writes + a.writes
               /\ token_json' = a.token_json
               /\ service' = IF a.result.raised THEN Absent ELSE a.result.value
               /\ phase' = IF a.result.raised THEN "crashed" ELSE "serving"
    /\ UNCHANGED <<surge_settings, token_at_start>>
    /\ UNCHANGED call

\* a call of a tool that sends one message
Messaging(name, text, post) ==
    /\ tool' = name
    /\ arg' = text
    /\ returned' = IF name = "textme" THEN textme(text, post)
                   ELSE text_me_my_event(text, post)
    /\ outbound' = <<[api |-> "surge",
                      request |-> textme_request(text, surge_settings[1])]>>
    /\ response' = NoResponse
    /\ origin' = 0
    /\ frame' = NoFrame
    /\ created' = Absent

\* the host calls textme
TextMe ==
    /\ phase = "serving"
    /\ tool = "none"
    /\ \E text \in Texts, post \in PostResponses : Messaging("textme", text, post)
    /\ UNCHANGED <<phase, startup>>

\* the host calls text_me_my_event
TextMeMyEvent ==
    /\ phase = "serving"
    /\ tool = "none"
    /\ \E text \in Texts, post \in PostResponses :
           Messaging("text_me_my_event", text, post)
    /\ UNCHANGED <<phase, startup>>

\* the host calls searchevents
SearchEvents ==
    /\ phase = "serving"
    /\ tool = "none"
    /\ \E keyword \in Keywords, got \in GetResponses :
           /\ tool' = "searchevents"
           /\ arg' = keyword
           /\ returned' = search_events(keyword, got)
           /\ outbound' = <<[api |-> "ticketmaster",
                             request |-> search_url(keyword, format(API_KEY))]>>
           /\ response' = got
    /\ origin' = 0
    /\ frame' = NoFrame
    /\ created' = Absent
    /\ UNCHANGED <<phase, startup>>

\* a call of save_ticketmaster_event
Saving(event_info, insert) ==
    \E s \in {save_ticketmaster_event(event_info, insert)} :
        /\ tool' = "save_ticketmaster_event"
        /\ arg' = event_info
        /\ returned' = s.result
        /\ outbound' = [i \in 1..Len(s.inserts) |->
                            [api |-> "calendar", request |-> s.inserts[i]]]
        /\ frame' = s.frame
        /\ created' = s.created

\* the host calls save_ticketmaster_event with a string of its own
SaveTicketmasterEvent ==
    /\ phase = "serving"
    /\ tool = "none"
    /\ \E event_info \in EventInfos, insert \in InsertOutcomes :
           Saving(event_info, insert)
    /\ response' = NoResponse
    /\ origin' = 0
    /\ UNCHANGED <<phase, startup>>

\* the lines of the search output the host holds, when it lists events
SearchLines ==
    IF /\ tool = "searchevents"
       /\ response.kind = "ok"
       /\ ~search_events_try(response).raised
       /\ response.data.embedded # Absent
       /\ response.data.embedded[1].events # Absent
       /\ response.data.embedded[1].events[1] # <<>>
    THEN split(returned.value, <<"\n">>)
    ELSE <<>>

\* the host calls save_ticketmaster_event with a line of the last search
SaveSearchLine ==
    /\ phase = "serving"
    /\ \E lines \in {SearchLines} :
           \E i \in 1..Len(lines), insert \in InsertOutcomes :
               /\ Saving(lines[i], insert)
               /\ origin' = i
    /\ UNCHANGED response
    /\ UNCHANGED <<phase, startup>>

\* the host is done with the reply it holds; the server keeps nothing of a call
Forget ==
    /\ phase = "serving"
    /\ tool # "none"
    /\ tool' = "none"
    /\ arg' = <<>>
    /\ returned' = Return(<<>>)
    /\ outbound' = <<>>
    /\ response' = NoResponse
    /\ origin' = 0
    /\ frame' = NoFrame
    /\ created' = Absent
    /\ UNCHANGED <<phase, startup>>

Next ==
    \/ LoadSettings
    \/ ConstructCalendarManager
    \/ TextMe
    \/ TextMeMyEvent
    \/ SearchEvents
    \/ SaveTicketmasterEvent
    \/ SaveSearchLine
    \/ Forget

Spec == Init /\ [][Next]_vars

(***************************************************************************)
(* The properties                                                          *)
(***************************************************************************)

\* the start and the end of the event of 2025-09-01 at 20:00, as isoformat() writes them
T_evening_start ==
    <<"2","0","2","5","-","0","9","-","0","1","T","2","0",":","0","0",":","0","0">>

T_evening_end ==
    <<"2","0","2","5","-","0","9","-","0","1","T","2","3",":","0","0",":","0","0">>

\* the host holds the reply of a search, of a save
Searched == tool = "searchevents"

Saved == tool = "save_ticketmaster_event"

\* the parts of the string the save was given
ArgParts == split(arg, S_bar)

\* a successful discovery response that carries no event
ZeroEvents(data) ==
    \/ data.embedded = Absent
    \/ data.embedded[1].events = Absent
    \/ data.embedded[1].events[1] = <<>>

\* the local start of an event, {} when the event has none
StartOf(event) == get(get(event.dates, EmptyDates).start, EmptyStart)

\* the summary line of an event with every default taken on its own; the venue
\* is "Unknown Venue" also when the list of venues is empty
SummaryLine(event) ==
    LET time == get(StartOf(event).localTime, <<>>)
        venues == get(get(event.embedded, EmptyEmbedded).venues, <<>>)
    IN  get(event.name, S_Unknown_Event) \o S_bar
            \o get(StartOf(event).localDate, S_TBD)
            \o (IF time = <<>> THEN <<>> ELSE S_at \o time) \o S_bar
            \o (IF Len(venues) = 0 THEN S_Unknown_Venue
                ELSE get(venues[1].name, S_Unknown_Venue)) \o S_bar
            \o get(event.url, <<>>)

\* the date and the time of a string of at least three parts, with the date
\* part split once, at its first " at "
DateTimeOf(parts) ==
    LET date_part == strip(parts[2])
        i == Find(date_part, S_at)
        time == IF i = 0 THEN S_default_time
                ELSE strip(SubSeq(date_part, i + Len(S_at), Len(date_part)))
    IN  [date_str |-> IF i = 0 THEN date_part ELSE SubSeq(date_part, 1, i - 1),
         time_str |-> IF Contains(time, S_colon) THEN time ELSE S_default_time]

\* "{dateStr} {timeStr}" is a date and a time of the pattern %Y-%m-%d %H:%M
Parses(dt) == ~strptime(dt.date_str \o <<" ">> \o dt.time_str).raised

\* the last three hours that a datetime can hold: 9999-12-31 from 21:00 on
LastHours(dt) == dt.year = 9999 /\ dt.month = 12 /\ dt.day = 31 /\ dt.hour >= 21

\* the reply is the message of the handler of save_ticketmaster_event
ErrorReply == ~returned.raised /\ StartsAt(returned.value, G_cross \o S_Error_parsing, 1)

\* the path of authenticate that the token file of the start calls for
PathFor(token) ==
    IF token # Absent /\ token[1].valid THEN "cached"
    ELSE IF token # Absent /\ token[1].expired /\ token[1].refresh_token
    THEN "refresh"
    ELSE "interactive"

\* C1: every call of textme, searchevents and save_ticketmaster_event ends by
\* returning a text, whatever the input and whatever the external service
\* comes to; no exception leaves a tool.
C1_ToolsReturnText ==
    tool # "none" => ~returned.raised /\ returned.value \in Seq(STRING)

\* C1, its case: the calendar insert failed with an exception that is no
\* HttpError, and the save returned
C1_InsertFailureReturned ==
    /\ Saved
    /\ created # Absent
    /\ created[1].raised
    /\ ~returned.raised

\* C2: create_event never raises: whatever the insert comes to, it returns a
\* result, with success true or with success false and a message.
C2_CreateEventNeverRaises ==
    created # Absent =>
        /\ ~created[1].raised
        /\ created[1].value.success \in BOOLEAN
        /\ "message" \in DOMAIN created[1].value

\* C3: a successful discovery response without events, the events array absent
\* or empty, makes search_events return exactly "No events found".
C3_NoEventsFound ==
    (Searched /\ response.kind = "ok" /\ ZeroEvents(response.data))
        => returned = Return(S_No_events_found)

\* C4: a successful discovery response of n >= 1 events makes search_events
\* return the n summary lines in the order of the response, joined by newline,
\* every missing field with its default, the venue of an empty list of venues
\* included.
C4_OneLinePerEvent ==
    (Searched /\ response.kind = "ok" /\ ~ZeroEvents(response.data))
        => LET events == response.data.embedded[1].events[1]
           IN  returned = Return(join([i \in 1..Len(events) |-> SummaryLine(events[i])],
                                      <<"\n">>))

\* C5 as the specification states it: with fewer than three parts the save
\* returns the invalid-format message and calls nothing; with a date and time
\* that do not parse it calls nothing; in every other case it attempts exactly
\* one insert.
C5_InsertUnlessUnparsed ==
    Saved =>
        IF Len(ArgParts) < 3
        THEN returned = Return(G_cross \o S_Invalid_format) /\ outbound = <<>>
        ELSE IF ~Parses(DateTimeOf(ArgParts))
        THEN ErrorReply /\ outbound = <<>>
        ELSE Len(outbound) = 1

\* C5, amended: with fewer than three parts the save returns the invalid-format
\* message and calls nothing; it attempts an insert, and then exactly one, if
\* and only if the date part holds at most one " at ", the date and time parse,
\* and the start is before the last three hours of the year 9999; otherwise it
\* returns the error message and calls nothing.
C5_InsertIffParsedInRange ==
    Saved =>
        IF Len(ArgParts) < 3
        THEN returned = Return(G_cross \o S_Invalid_format) /\ outbound = <<>>
        ELSE IF \/ Len(split(strip(ArgParts[2]), S_at)) > 2
                \/ ~Parses(DateTimeOf(ArgParts))
                \/ LastHours(strptime(DateTimeOf(ArgParts).date_str \o <<" ">>
                                          \o DateTimeOf(ArgParts).time_str).value)
        THEN ErrorReply /\ outbound = <<>>
        ELSE Len(outbound) = 1 /\ outbound[1].api = "calendar"

\* C5, its case: the date and time parsed, the end of the event is out of
\* range, and no insert was attempted
C5_ParsedButNotInserted ==
    /\ Saved
    /\ "event_datetime" \in DOMAIN frame
    /\ LastHours(frame.event_datetime)
    /\ outbound = <<>>
    /\ ErrorReply

\* C6: the line search_events writes for an event with a start time t, given
\* to save_ticketmaster_event, is parsed to the time t and to the date of the
\* line, whatever the name, the venue and the url of the event.
C6_RoundTrip ==
    origin > 0 =>
        LET start == StartOf(response.data.embedded[1].events[1][origin])
        IN  get(start.localTime, <<>>) # <<>> =>
                /\ "time_str" \in DOMAIN frame
                /\ frame.time_str = start.localTime[1]
                /\ frame.date_str = get(start.localDate, S_TBD)

\* C7: for a string of at least three parts the save splits the date part
\* once, at the first " at ", into the date and the trimmed time, also when
\* " at " occurs more than once; without " at " the time is "19:00"; a time
\* without ":" is "19:00".
C7_TimeDerivation ==
    (Saved /\ Len(ArgParts) >= 3) =>
        /\ "time_str" \in DOMAIN frame
        /\ frame.date_str = DateTimeOf(ArgParts).date_str
        /\ frame.time_str = DateTimeOf(ArgParts).time_str

\* C8: every event save_ticketmaster_event submits starts at the parsed
\* "{date_str} {time_str}" and ends exactly three hours later, after its start.
C8_EndIsStartPlusThreeHours ==
    \A i \in 1..Len(outbound) :
        outbound[i].api = "calendar" =>
            LET body == outbound[i].request.body
                parsed == strptime(frame.date_str \o <<" ">> \o frame.time_str)
            IN  /\ ~parsed.raised
                /\ body.start.dateTime = isoformat(parsed.value)
                /\ ~LastHours(parsed.value)
                /\ body.end.dateTime = isoformat(timedelta_add(parsed.value, 3).value)
                /\ Before(parsed.value, timedelta_add(parsed.value, 3).value)

\* C8, its case: the event that starts 2025-09-01T20:00 was submitted with the
\* end 2025-09-01T23:00
C8_EveningSubmitted ==
    /\ Saved
    /\ Len(outbound) = 1
    /\ outbound[1].request.body.start.dateTime = T_evening_start
    /\ outbound[1].request.body.end.dateTime = T_evening_end

\* C9: for a string of at least three parts, url is the trimmed last part if
\* the last part contains "http" and absent if not; the description, when the
\* save comes to build it, is "Ticketmaster Event" and, exactly when there is a
\* url, the Tickets line; the location is the trimmed third part, so that
\* venue and url are one value when the third of three parts contains "http".
C9_UrlDescriptionLocation ==
    (Saved /\ Len(ArgParts) >= 3) =>
        LET last == ArgParts[Len(ArgParts)]
            url == IF Contains(last, S_http) THEN Some(strip(last)) ELSE Absent
            venue == Some(strip(ArgParts[3]))
        IN  /\ frame.url = url
            /\ frame.venue = venue
            /\ "description" \in DOMAIN frame =>
                   frame.description =
                       S_Ticketmaster_Event
                           \o (IF url # Absent THEN S_Tickets \o url[1] ELSE <<>>)
            /\ \A i \in 1..Len(outbound) :
                   /\ outbound[i].request.body.location = venue
                   /\ outbound[i].request.body.description = Some(frame.description)
            /\ (Len(ArgParts) = 3 /\ Contains(ArgParts[3], S_http)) =>
                   frame.venue = frame.url

\* C9, its case: an event of three parts, the third one a url, was submitted
C9_VenueIsUrlSubmitted ==
    /\ Saved
    /\ Len(ArgParts) = 3
    /\ Contains(ArgParts[3], S_http)
    /\ Len(outbound) = 1

\* C10: authenticate runs once, when the calendar manager is constructed and
\* before any tool is called, and never again; it takes the cached path for
\* valid credentials, the refresh path for expired credentials with a refresh
\* token, the interactive path otherwise; token.json is written exactly when
\* the credentials were refreshed or obtained interactively.
C10_AuthenticatedOnceAtConstruction ==
    /\ phase \in {"boot", "loaded"} =>
           auth_runs = 0 /\ token_writes = 0 /\ tool = "none" /\ service = Absent
    /\ phase = "crashed" =>
           auth_runs <= 1 /\ token_writes = 0 /\ tool = "none" /\ service = Absent
    /\ phase = "serving" =>
           /\ auth_runs = 1
           /\ service # Absent
           /\ auth_path = PathFor(token_at_start)
           /\ token_writes = IF auth_path \in {"refresh", "interactive"} THEN 1 ELSE 0
           /\ auth_path = "cached" => token_json = token_at_start
    /\ tool # "none" => phase = "serving"

\* C10, its case: the credentials were refreshed and written at construction,
\* and a later save reached create_event
C10_SavedAfterRefresh ==
    /\ phase = "serving"
    /\ auth_path = "refresh"
    /\ token_writes = 1
    /\ Saved
    /\ created # Absent

=============================================================================
